---- MODULE Spec2Model ----
(***************************************************************************)
(* Model of helix-view/src/register.rs: the named-register store and its   *)
(* synchronisation with the external clipboard.                            *)
(*                                                                         *)
(* A text (Rust String / &str) is a sequence of characters.  A register's  *)
(* value list is a sequence of texts.                                      *)
(***************************************************************************)
EXTENDS Integers, Sequences, FiniteSets

VARIABLES
    inner,                  \* Registers::inner : HashMap<char, Register>
    clipboard,              \* the external clipboard, one text per ClipboardType
    last_search_register,   \* Registers::last_search_register
    call,                   \* the last operation: which one, on which name
    ret,                    \* what that call returned
    bridge                  \* the clipboard-provider calls that call made, in order

vars == <<inner, clipboard, last_search_register, call, ret, bridge>>

----------------------------------------------------------------------------
(* Bounds of the model *)

\* Most values one write call carries.
MaxWriteLen == 2
\* Most values stored in all registers together (Spec, SpecClipboard,
\* SpecOrdinary).
MaxStored == 2
\* A push extends only a clipboard text that stays within this length (Spec,
\* SpecClipboard).
MaxClipLen == 2
\* Most pushed values a register's history retains (SpecHistory).
MaxPushed == 1
\* Longest value handed to contents_are_saved (SpecMatch, SpecJoin).
MaxValueLen == 2

----------------------------------------------------------------------------
(* Texts *)

\* helix_core::NATIVE_LINE_ENDING.as_str() on a non-Windows build
NATIVE_LINE_ENDING == <<"\n">>

\* const MAX_REGISTER_HISTORY_LEN: usize = 100
MAX_REGISTER_HISTORY_LEN == 100

\* The texts that are written or pushed as register values.
Values == {<<>>, <<"a">>}

\* The texts another program puts on the clipboard.
ExternalTexts == {<<>>, <<"a">>, <<"a", "a">>}

\* The non-empty value lists a write call carries.
ValueLists == UNION {[1..n -> Values] : n \in 1..MaxWriteLen}

\* str::starts_with
StartsWith(text, prefix) ==
    /\ Len(prefix) <= Len(text)
    /\ SubSeq(text, 1, Len(prefix)) = prefix

\* &text[n..]
SliceFrom(text, n) == SubSeq(text, n + 1, Len(text))

\* The values joined in order with the separator (the join the spec speaks of).
RECURSIVE Join(_, _)
Join(values, sep) ==
    IF values = <<>> THEN <<>>
    ELSE IF Len(values) = 1 THEN values[1]
    ELSE values[1] \o sep \o Join(Tail(values), sep)

----------------------------------------------------------------------------
(* Register *)

DefaultRegister == [values |-> <<>>, lengths |-> <<>>]

\* Register::latest_value
latest_value(reg) ==
    IF reg.values = <<>> THEN <<"None">> ELSE <<"Some", reg.values[Len(reg.values)]>>

\* Register::values that forgets the yank length and exposes the whole history
RegisterValues_WholeHistory(reg) == reg.values

\* Register::values : the last `length` stored values, in order
RegisterValues(reg) ==
    LET length == IF reg.lengths = <<>> THEN 0
                  ELSE reg.lengths[Len(reg.lengths)]
        n      == Len(reg.values)
        take   == IF length < n THEN length ELSE n
    IN  SubSeq(reg.values, n - take + 1, n)

\* Register::write that drains one value, not the oldest yank, on eviction
RegisterWrite_DrainOne(reg, values) ==
    LET full     == Len(reg.lengths) > MAX_REGISTER_HISTORY_LEN
        lengths1 == IF full THEN Tail(reg.lengths) ELSE reg.lengths
        values1  == IF full THEN Tail(reg.values) ELSE reg.values
    IN  [values |-> values1 \o values, lengths |-> Append(lengths1, Len(values))]

\* Register::write
RegisterWrite(reg, values) ==
    LET full       == Len(reg.lengths) > MAX_REGISTER_HISTORY_LEN
        oldest_len == Head(reg.lengths)
        lengths1   == IF full THEN Tail(reg.lengths) ELSE reg.lengths
        values1    == IF full
                      THEN SubSeq(reg.values, oldest_len + 1, Len(reg.values))
                      ELSE reg.values
        values2    == values1 \o values
        yank_len   == Len(values2) - Len(values1)
    IN  [values |-> values2, lengths |-> Append(lengths1, yank_len)]

\* Register::push that stores the value and leaves the yank length as it was
RegisterPush_KeepLength(reg, value) ==
    [values  |-> Append(reg.values, value),
     lengths |-> IF reg.lengths # <<>> THEN reg.lengths ELSE <<1>>]

\* Register::push that records the value as a yank of its own
RegisterPush_NewBatch(reg, value) ==
    [values  |-> Append(reg.values, value),
     lengths |-> Append(reg.lengths, 1)]

\* Register::push
RegisterPush(reg, value) ==
    [values  |-> Append(reg.values, value),
     lengths |-> IF reg.lengths # <<>>
                 THEN [reg.lengths EXCEPT ![Len(reg.lengths)] = @ + 1]
                 ELSE <<1>>]

----------------------------------------------------------------------------
(* contents_are_saved *)

\* the loop over the values after the first
RECURSIVE ContentsMatchRest(_, _)
ContentsMatchRest(values, contents) ==
    IF values = <<>> THEN TRUE
    ELSE LET value == Head(values)
             n     == Len(NATIVE_LINE_ENDING)
         IN  IF /\ StartsWith(contents, NATIVE_LINE_ENDING)
                /\ StartsWith(SliceFrom(contents, n), value)
             THEN ContentsMatchRest(Tail(values),
                                    SliceFrom(contents, n + Len(value)))
             ELSE FALSE

\* the lines of a text: what lies between its line endings
RECURSIVE SplitLines(_)
SplitLines(text) ==
    IF \E i \in 1..Len(text) : <<text[i]>> = NATIVE_LINE_ENDING
    THEN LET i == CHOOSE k \in 1..Len(text) :
                     /\ <<text[k]>> = NATIVE_LINE_ENDING
                     /\ \A j \in 1..(k - 1) : <<text[j]>> # NATIVE_LINE_ENDING
         IN  <<SubSeq(text, 1, i - 1)>> \o SplitLines(SliceFrom(text, i))
    ELSE <<text>>

\* contents_are_saved that splits the text at the line endings and compares
\* the lines with the values
contents_are_saved_SplitLines(values, contents) ==
    IF values = <<>> THEN contents = <<>>
    ELSE SplitLines(contents) = values

contents_are_saved(values, contents) ==
    IF values = <<>> THEN contents = <<>>
    ELSE IF StartsWith(contents, Head(values))
         THEN ContentsMatchRest(Tail(values),
                                SliceFrom(contents, Len(Head(values))))
         ELSE FALSE

----------------------------------------------------------------------------
(* Registers: names, the map, the clipboard provider *)

\* the read-only arm without '%'
ReadOnlyNames_NoPercent == {"#", "."}

\* the store without a '_' arm
BlackHole_Nothing == {}

BlackHole      == {"_"}
ReadOnlyNames  == {"#", ".", "%"}
ClipboardNames == {"*", "+"}
OrdinaryNames  == {"a", "b"}
Names          == {"_", "#", ".", "%", "*", "+", "a"}

ClipboardTypes == {"Clipboard", "Selection"}

\* the match that takes the system clipboard for both names
ClipboardTypeOf_Clipboard(name) == "Clipboard"

\* match name { '+' => ClipboardType::Clipboard, '*' => ClipboardType::Selection }
ClipboardTypeOf(name) == IF name = "+" THEN "Clipboard" ELSE "Selection"

Ok        == <<"Ok">>
Err(msg)  == <<"Err", msg>>
None      == <<"None">>
Some(x)   == <<"Some", x>>
Unit      == <<"Unit">>
Bool(b)   == <<"Bool", b>>

\* HashMap::get
MapGet(map, name) == IF name \in DOMAIN map THEN Some(map[name]) ELSE None

\* HashMap::insert
MapPut(map, name, reg) ==
    [n \in DOMAIN map \cup {name} |-> IF n = name THEN reg ELSE map[n]]

\* HashMap::entry(name).or_default()
EntryOrDefault(map, name) ==
    IF name \in DOMAIN map THEN map ELSE MapPut(map, name, DefaultRegister)

\* HashMap::remove
MapRemove(map, name) == [n \in DOMAIN map \ {name} |-> map[n]]

\* HashMap::clear
EmptyMap == [n \in {} |-> DefaultRegister]

\* ClipboardProvider::set_contents: a call that succeeds stores the text given,
\* a call that fails stores nothing.
SetContents(clip, text, kind, ok) ==
    IF ok THEN [clip EXCEPT ![kind] = text] ELSE clip

\* ClipboardProvider::get_contents: a call that succeeds returns the text the
\* clipboard holds.
GetContents(clip, kind, ok) == IF ok THEN <<"Ok", clip[kind]>> ELSE <<"Err">>

GetCall(kind, got) == [fn |-> "get_contents", kind |-> kind,
                       text |-> IF got[1] = "Ok" THEN got[2] ELSE <<>>,
                       ok |-> got[1] = "Ok"]
SetCall(kind, text, ok) == [fn |-> "set_contents", kind |-> kind,
                            text |-> text, ok |-> ok]

----------------------------------------------------------------------------
(* Registers::read *)

\* The editing context read consults for '#', '.' and '%'.
Editors ==
    {[selections |-> << <<"a">> >>,          path |-> None],
     [selections |-> << <<"a">>, <<"\n">> >>, path |-> Some(<<"a">>)]}

SCRATCH_BUFFER_NAME == <<"[", "s", "c", "r", "a", "t", "c", "h", "]">>

Digit == <<"0", "1", "2", "3", "4", "5", "6", "7", "8", "9">>

\* usize::to_string
RECURSIVE to_string(_)
to_string(n) ==
    IF n < 10 THEN <<Digit[n + 1]>>
    ELSE to_string(n \div 10) \o <<Digit[(n % 10) + 1]>>

\* read_from_clipboard that falls back to the cache when get_contents fails
read_from_clipboard_CacheOnError(got, register) ==
    IF got[1] = "Ok"
    THEN LET contents == got[2]
         IN  IF register = None THEN <<contents>>
             ELSE IF contents_are_saved(RegisterValues(register[2]), contents)
                  THEN RegisterValues(register[2])
                  ELSE <<contents>>
    ELSE IF register = None THEN <<>> ELSE RegisterValues(register[2])

read_from_clipboard(got, register) ==
    IF got[1] = "Ok"
    THEN LET contents == got[2]
         IN  IF register = None THEN <<contents>>
             ELSE IF contents_are_saved(RegisterValues(register[2]), contents)
                  THEN RegisterValues(register[2])
                  ELSE <<contents>>
    ELSE <<>>

\* What read(name, editor) returns when the store holds `map` and get_contents
\* answers `got`.
ReadResult(map, name, editor, got) ==
    IF name = "_" THEN Some(<<>>)
    ELSE IF name = "#"
         THEN Some([i \in 1..Len(editor.selections) |-> to_string(i)])
    ELSE IF name = "."
         THEN Some(editor.selections)
    ELSE IF name = "%"
         THEN Some(<<IF editor.path = None THEN SCRATCH_BUFFER_NAME
                     ELSE editor.path[2]>>)
    ELSE IF name \in ClipboardNames
         THEN Some(read_from_clipboard(got, MapGet(map, name)))
    ELSE IF name \in DOMAIN map THEN Some(RegisterValues(map[name])) ELSE None

\* and_then(|mut values| values.next())
FirstOf(result) ==
    IF result = None \/ result[2] = <<>> THEN None ELSE Some(Head(result[2]))

\* and_then(|values| values.last())
LastOf(result) ==
    IF result = None \/ result[2] = <<>> THEN None
    ELSE Some(result[2][Len(result[2])])

\* The provider calls of one read.
ReadCalls(name, got) ==
    IF name \in ClipboardNames THEN <<GetCall(ClipboardTypeOf(name), got)>>
    ELSE <<>>

\* The editing contexts and provider answers that make a difference to a read
\* of `name`.
ReadInputs(name) ==
    {<<editor, got>> \in
        Editors \X {GetContents(clipboard, ClipboardTypeOf(name), ok) : ok \in BOOLEAN} :
        /\ name \notin ClipboardNames => got[1] = "Ok"
        /\ name \notin ReadOnlyNames => editor.path = None}

Read(name) ==
    \E input \in ReadInputs(name) :
        /\ call' = [op |-> "read", name |-> name]
        /\ ret' = ReadResult(inner, name, input[1], input[2])
        /\ bridge' = ReadCalls(name, input[2])
        /\ UNCHANGED <<inner, clipboard, last_search_register>>

First(name) ==
    \E input \in ReadInputs(name) :
        /\ call' = [op |-> "first", name |-> name]
        /\ ret' = FirstOf(ReadResult(inner, name, input[1], input[2]))
        /\ bridge' = ReadCalls(name, input[2])
        /\ UNCHANGED <<inner, clipboard, last_search_register>>

Last(name) ==
    \E input \in ReadInputs(name) :
        /\ call' = [op |-> "last", name |-> name]
        /\ ret' = LastOf(ReadResult(inner, name, input[1], input[2]))
        /\ bridge' = ReadCalls(name, input[2])
        /\ UNCHANGED <<inner, clipboard, last_search_register>>

----------------------------------------------------------------------------
(* Registers::write *)

\* the loop of write that builds the text handed to set_contents
RECURSIVE WriteContents(_, _)
WriteContents(contents, values) ==
    IF values = <<>> THEN contents
    ELSE WriteContents(
             (IF contents # <<>> THEN contents \o NATIVE_LINE_ENDING
              ELSE contents) \o Head(values),
             Tail(values))

\* the '*' | '+' arm of write that updates the register only once set_contents
\* has succeeded
WriteClipboard_SetFirst(name, values) ==
    \E set_ok \in BOOLEAN :
        LET map1     == EntryOrDefault(inner, name)
            map2     == MapPut(map1, name, RegisterWrite(map1[name], values))
            contents == WriteContents(<<>>, RegisterValues(map2[name]))
            kind     == ClipboardTypeOf(name)
        IN  /\ inner' = IF set_ok THEN map2 ELSE inner
            /\ clipboard' = SetContents(clipboard, contents, kind, set_ok)
            /\ bridge' = <<SetCall(kind, contents, set_ok)>>
            /\ ret' = IF set_ok THEN Ok ELSE Err("set_contents")

\* the '*' | '+' arm of write
WriteClipboard(name, values) ==
    \E set_ok \in BOOLEAN :
        LET map1     == EntryOrDefault(inner, name)
            map2     == MapPut(map1, name, RegisterWrite(map1[name], values))
            contents == WriteContents(<<>>, RegisterValues(map2[name]))
            kind     == ClipboardTypeOf(name)
        IN  /\ inner' = map2
            /\ clipboard' = SetContents(clipboard, contents, kind, set_ok)
            /\ bridge' = <<SetCall(kind, contents, set_ok)>>
            /\ ret' = IF set_ok THEN Ok ELSE Err("set_contents")

Write(name, values) ==
    /\ call' = [op |-> "write", name |-> name]
    /\ UNCHANGED last_search_register
    /\ IF name \in BlackHole
       THEN /\ ret' = Ok
            /\ bridge' = <<>>
            /\ UNCHANGED <<inner, clipboard>>
       ELSE IF name \in ReadOnlyNames
       THEN /\ ret' = Err("does not support writing")
            /\ bridge' = <<>>
            /\ UNCHANGED <<inner, clipboard>>
       ELSE IF name \in ClipboardNames
       THEN WriteClipboard(name, values)
       ELSE LET map1 == EntryOrDefault(inner, name)
            IN  /\ inner' = MapPut(map1, name, RegisterWrite(map1[name], values))
                /\ ret' = Ok
                /\ bridge' = <<>>
                /\ UNCHANGED clipboard

----------------------------------------------------------------------------
(* Registers::push *)

\* the text push hands to set_contents
PushContents(value, contents) ==
    (IF contents # <<>> THEN value \o NATIVE_LINE_ENDING ELSE value) \o contents

\* the '*' | '+' arm of push
PushClipboard(name, value) ==
    \E get_ok \in BOOLEAN, set_ok \in BOOLEAN :
        LET kind == ClipboardTypeOf(name)
            got  == GetContents(clipboard, kind, get_ok)
            map1 == EntryOrDefault(inner, name)
        IN  IF got[1] # "Ok"
            THEN /\ set_ok
                 /\ ret' = Err("get_contents")
                 /\ bridge' = <<GetCall(kind, got)>>
                 /\ UNCHANGED <<inner, clipboard>>
            ELSE IF ~contents_are_saved(RegisterValues(map1[name]), got[2])
            THEN /\ set_ok
                 /\ ret' = Err("clipboard does not match register contents")
                 /\ bridge' = <<GetCall(kind, got)>>
                 /\ inner' = map1
                 /\ UNCHANGED clipboard
            ELSE LET text == PushContents(value, got[2])
                 IN  /\ inner' = MapPut(map1, name,
                                        RegisterPush(map1[name], value))
                     /\ clipboard' = SetContents(clipboard, text, kind, set_ok)
                     /\ bridge' = <<GetCall(kind, got),
                                    SetCall(kind, text, set_ok)>>
                     /\ ret' = IF set_ok THEN Ok ELSE Err("set_contents")

Push(name, value) ==
    /\ call' = [op |-> "push", name |-> name]
    /\ UNCHANGED last_search_register
    /\ IF name \in BlackHole
       THEN /\ ret' = Ok
            /\ bridge' = <<>>
            /\ UNCHANGED <<inner, clipboard>>
       ELSE IF name \in ReadOnlyNames
       THEN /\ ret' = Err("does not support pushing")
            /\ bridge' = <<>>
            /\ UNCHANGED <<inner, clipboard>>
       ELSE IF name \in ClipboardNames
       THEN PushClipboard(name, value)
       ELSE LET map1 == EntryOrDefault(inner, name)
            IN  /\ inner' = MapPut(map1, name, RegisterPush(map1[name], value))
                /\ ret' = Ok
                /\ bridge' = <<>>
                /\ UNCHANGED clipboard

----------------------------------------------------------------------------
(* Registers::clear, Registers::remove *)

\* clear_clipboard that always clears the system clipboard
clear_clipboard_OneKind(clip, kind, ok) == SetContents(clip, <<>>, "Clipboard", ok)

\* Registers::clear_clipboard: the failure is logged, nothing is returned
clear_clipboard(clip, kind, ok) == SetContents(clip, <<>>, kind, ok)

Clear ==
    \E ok1 \in BOOLEAN, ok2 \in BOOLEAN :
        /\ call' = [op |-> "clear", name |-> ""]
        /\ clipboard' = clear_clipboard(clear_clipboard(clipboard, "Clipboard", ok1),
                                        "Selection", ok2)
        /\ bridge' = <<SetCall("Clipboard", <<>>, ok1),
                       SetCall("Selection", <<>>, ok2)>>
        /\ inner' = EmptyMap
        /\ ret' = Unit
        /\ UNCHANGED last_search_register

\* remove that keeps the cache when the clipboard could not be cleared
Remove_KeepOnError(name) ==
    /\ call' = [op |-> "remove", name |-> name]
    /\ UNCHANGED last_search_register
    /\ IF name \in ClipboardNames
       THEN \E ok \in BOOLEAN :
              /\ clipboard' = clear_clipboard(clipboard, ClipboardTypeOf(name), ok)
              /\ bridge' = <<SetCall(ClipboardTypeOf(name), <<>>, ok)>>
              /\ inner' = IF ok THEN MapRemove(inner, name) ELSE inner
              /\ ret' = Bool(TRUE)
       ELSE IF name \in BlackHole \cup ReadOnlyNames
       THEN /\ ret' = Bool(FALSE)
            /\ bridge' = <<>>
            /\ UNCHANGED <<inner, clipboard>>
       ELSE /\ ret' = Bool(name \in DOMAIN inner)
            /\ inner' = MapRemove(inner, name)
            /\ bridge' = <<>>
            /\ UNCHANGED clipboard

Remove(name) ==
    /\ call' = [op |-> "remove", name |-> name]
    /\ UNCHANGED last_search_register
    /\ IF name \in ClipboardNames
       THEN \E ok \in BOOLEAN :
              /\ clipboard' = clear_clipboard(clipboard, ClipboardTypeOf(name), ok)
              /\ bridge' = <<SetCall(ClipboardTypeOf(name), <<>>, ok)>>
              /\ inner' = MapRemove(inner, name)
              /\ ret' = Bool(TRUE)
       ELSE IF name \in BlackHole \cup ReadOnlyNames
       THEN /\ ret' = Bool(FALSE)
            /\ bridge' = <<>>
            /\ UNCHANGED <<inner, clipboard>>
       ELSE /\ ret' = Bool(name \in DOMAIN inner)
            /\ inner' = MapRemove(inner, name)
            /\ bridge' = <<>>
            /\ UNCHANGED clipboard

----------------------------------------------------------------------------
(* The environment *)

\* Another program replaces the content of one clipboard kind.
ExternalCopy(kind, text) ==
    /\ clipboard' = [clipboard EXCEPT ![kind] = text]
    /\ call' = [op |-> "external_copy", name |-> ""]
    /\ ret' = Unit
    /\ bridge' = <<>>
    /\ UNCHANGED <<inner, last_search_register>>

----------------------------------------------------------------------------
(* The store under any sequence of calls *)

RECURSIVE StoredIn(_, _)
StoredIn(map, names) ==
    IF names = {} THEN 0
    ELSE LET n == CHOOSE x \in names : TRUE
         IN  Len(map[n].values) + StoredIn(map, names \ {n})

\* The number of values the store holds.
Stored == StoredIn(inner, DOMAIN inner)

\* The calls the model explores: those that store keep within MaxStored, and a
\* push to a clipboard register keeps the clipboard text within MaxClipLen.
Fits(name, count) ==
    \/ name \in BlackHole \cup ReadOnlyNames
    \/ Stored + count <= MaxStored

PushFits(name, value) ==
    /\ Fits(name, 1)
    /\ name \in ClipboardNames =>
          Len(clipboard[ClipboardTypeOf(name)]) + Len(value) < MaxClipLen

Init ==
    /\ inner = EmptyMap
    /\ clipboard = [kind \in ClipboardTypes |-> <<>>]
    /\ last_search_register = "/"
    /\ call = [op |-> "new", name |-> ""]
    /\ ret = Unit
    /\ bridge = <<>>

\* Any call on one of `names`, or another program copying to the clipboard.
NextOn(names) ==
    \/ \E name \in names : Read(name)
    \/ \E name \in names : First(name)
    \/ \E name \in names : Last(name)
    \/ \E name \in names, values \in ValueLists :
          Fits(name, Len(values)) /\ Write(name, values)
    \/ \E name \in names, value \in Values :
          PushFits(name, value) /\ Push(name, value)
    \/ Clear
    \/ \E name \in names : Remove(name)
    \/ \E kind \in ClipboardTypes, text \in ExternalTexts : ExternalCopy(kind, text)

\* The whole store: every kind of name.
Next == NextOn(Names)

Spec == Init /\ [][Next]_vars

\* The clipboard registers alone.
NextClipboard == NextOn({"*", "+"})

SpecClipboard == Init /\ [][NextClipboard]_vars

\* Two ordinary registers and the names that store nothing.
NextOrdinary == NextOn({"_", "#", ".", "%", "a", "b"})

SpecOrdinary == Init /\ [][NextOrdinary]_vars

----------------------------------------------------------------------------
(* One register under a long run of yanks *)

\* The pushed values the register's history holds.
Pushed(reg) == Len(reg.values) - Len(reg.lengths)

\* A yank of one value that differs from the latest value stored.
HistoryWrite ==
    \E value \in Values :
        /\ "a" \in DOMAIN inner => latest_value(inner["a"]) # <<"Some", value>>
        /\ Write("a", <<value>>)

HistoryPush ==
    \E value \in Values :
        /\ "a" \in DOMAIN inner => Pushed(inner["a"]) < MaxPushed
        /\ Push("a", value)

NextHistory == HistoryWrite \/ HistoryPush

SpecHistory == Init /\ [][NextHistory]_vars

----------------------------------------------------------------------------
(* contents_are_saved on its own *)

\* The characters of the texts: two letters and the line ending.
MatchChars == {"a", "b", "\n"}

TextsUpTo(n) == UNION {[1..k -> MatchChars] : k \in 0..n}

\* The cached values: empty ones and ones holding the line ending included.
MatchValues == TextsUpTo(MaxValueLen)

\* What register.values() yields: no value (a Default register) or one yank.
MatchLists == UNION {[1..k -> MatchValues] : k \in 0..MaxWriteLen}

\* The clipboard texts: up to one character more than the longest join.
MatchTexts == TextsUpTo(MaxWriteLen * (MaxValueLen + 1))

\* A register whose one yank is `values`; the Default register for no values.
RegisterHolding(values) ==
    IF Len(values) = 0 THEN DefaultRegister
    ELSE RegisterWrite(DefaultRegister, values)

\* The store caches `values` under '+' and the system clipboard holds `text`.
InitMatch(inputs) ==
    /\ \E input \in inputs :
          /\ inner = [n \in {"+"} |-> RegisterHolding(input[1])]
          /\ clipboard = [kind \in ClipboardTypes |->
                            IF kind = "Clipboard" THEN input[2] ELSE <<>>]
    /\ last_search_register = "/"
    /\ call = [op |-> "new", name |-> ""]
    /\ ret = Unit
    /\ bridge = <<>>

\* contents_are_saved(register.values(), &contents), as read_from_clipboard
\* and push call it on the cache of '+' and the text of the clipboard
ContentsAreSaved ==
    /\ call.op = "new"
    /\ "+" \in DOMAIN inner
    /\ call' = [op |-> "contents_are_saved", name |-> "+"]
    /\ ret' = Bool(contents_are_saved(RegisterValues(inner["+"]),
                                       clipboard["Clipboard"]))
    /\ bridge' = <<>>
    /\ UNCHANGED <<inner, clipboard, last_search_register>>

\* Every cached list against every text.
SpecMatch == InitMatch(MatchLists \X MatchTexts) /\ [][ContentsAreSaved]_vars

\* Every cached list against its own join.
SpecJoin ==
    InitMatch({<<values, Join(values, NATIVE_LINE_ENDING)>> : values \in MatchLists})
    /\ [][ContentsAreSaved]_vars

----------------------------------------------------------------------------
(* What the claims speak of *)

\* The register of a name, the empty one when the map has none.
RegisterOf(map, name) == IF name \in DOMAIN map THEN map[name] ELSE DefaultRegister

AnyEditor == CHOOSE editor \in Editors : editor.path = None

\* read(name) in the current state, the provider answering get_contents.
ReadNow(name) ==
    ReadResult(inner, name, AnyEditor,
               GetContents(clipboard, ClipboardTypeOf(name), TRUE))

\* The most recent batch of a clipboard register, joined.
JoinedCache(name) == Join(RegisterValues(inner[name]), NATIVE_LINE_ENDING)

StoreUnchanged == UNCHANGED <<inner, clipboard, last_search_register>>

\* The sum of the recorded yank lengths.
SumOfLengths(lengths) ==
    Cardinality(UNION {{i} \X (1..lengths[i]) : i \in 1..Len(lengths)})

----------------------------------------------------------------------------
(* C1 *)

\* C1: for every non-special name, whatever the store went through before, a
\* write of a non-empty value list returns Ok and a read right after it returns
\* exactly that list, in order.
C1_WriteThenRead ==
    [][call'.op = "write" =>
         \A name \in {"a", "b"}, values \in ValueLists :
            Write(name, values) =>
              /\ ret' = Ok
              /\ ReadNow(name)' = Some(values)]_vars

\* a write to an ordinary register that already held an older yank
C1_Witness ==
    /\ call = [op |-> "write", name |-> "a"]
    /\ ret = Ok
    /\ "a" \in DOMAIN inner
    /\ Len(inner["a"].lengths) = 2
    /\ ReadNow("a") = Some(<<<<>>>>)
    /\ inner["a"].values = << <<"a">>, <<>> >>

----------------------------------------------------------------------------
(* C2 *)

\* C2: for a clipboard name and every non-empty value list, a write that
\* succeeds followed by a read (the clipboard left alone, get_contents
\* succeeding) returns the list written, value by value.
C2_ClipboardRoundTrip ==
    [][call'.op = "write" =>
         \A name \in {"+", "*"}, values \in ValueLists :
            (Write(name, values) /\ ret' = Ok) => ReadNow(name)' = Some(values)]_vars

----------------------------------------------------------------------------
(* C3 *)

\* C3: when a clipboard register has a cached batch and another program has
\* just put on the clipboard a text that is not that batch joined with the
\* line ending, push returns an error and changes neither the registers nor
\* the clipboard, and calls set_contents not at all.
C3_StalePushRejected ==
    [][\A name \in {"+", "*"} :
          (/\ call.op = "external_copy"
           /\ name \in DOMAIN inner
           /\ inner[name].lengths # <<>>
           /\ clipboard[ClipboardTypeOf(name)] # JoinedCache(name)
           /\ call' = [op |-> "push", name |-> name])
          => /\ ret'[1] = "Err"
             /\ inner' = inner
             /\ clipboard' = clipboard
             /\ \A i \in 1..Len(bridge') : bridge'[i].fn # "set_contents"]_vars

----------------------------------------------------------------------------
(* C4 *)

\* C4: after every write and every push to a clipboard register that
\* succeeded, the clipboard text is the register's most recent batch joined
\* in order with the line ending; so a read returns that batch and a push is
\* not rejected as stale.
C4_CacheMatchesClipboard ==
    \A name \in {"+", "*"} :
        (call.op \in {"write", "push"} /\ call.name = name /\ ret = Ok)
        => /\ clipboard[ClipboardTypeOf(name)] = JoinedCache(name)
           /\ ReadNow(name) = Some(RegisterValues(inner[name]))
           /\ contents_are_saved(RegisterValues(inner[name]),
                                 clipboard[ClipboardTypeOf(name)])

----------------------------------------------------------------------------
(* C5 *)

\* C5: under any run of writes and pushes to one ordinary name the register
\* never retains more than MAX_REGISTER_HISTORY_LEN + 1 batches; a write
\* either keeps every batch or drops exactly the oldest one (the first
\* lengths[1] values), appends the values written as the newest batch, and
\* that batch is what read exposes.
C5_BoundedHistory ==
    [][/\ Len(RegisterOf(inner, "a").lengths)' <= MAX_REGISTER_HISTORY_LEN + 1
       /\ call'.op = "write" =>
            \A values \in ValueLists :
              Write("a", values) =>
                LET old == RegisterOf(inner, "a")
                    new == inner'["a"]
                IN  /\ \/ /\ new.lengths = Append(old.lengths, Len(values))
                          /\ new.values = old.values \o values
                       \/ /\ old.lengths # <<>>
                          /\ new.lengths = Append(Tail(old.lengths), Len(values))
                          /\ new.values =
                               SubSeq(old.values, old.lengths[1] + 1,
                                      Len(old.values)) \o values
                    /\ ReadNow("a")' = Some(values)]_vars

\* a full history whose oldest yank was lengthened by a push and is the next
\* to be evicted
C5_Witness ==
    /\ "a" \in DOMAIN inner
    /\ Len(inner["a"].lengths) = MAX_REGISTER_HISTORY_LEN + 1
    /\ call.op = "write"
    /\ inner["a"].lengths[1] = 2

----------------------------------------------------------------------------
(* C6 *)

\* C6: on '#', '.' and '%', in every state, write and push return an error and
\* remove returns false; the registers, last_search_register and both
\* clipboard kinds stay as they were and the provider is not called.
C6_ReadOnlyUntouched ==
    [][\A name \in {"#", ".", "%"} :
          (call'.name = name /\ call'.op \in {"write", "push", "remove"})
          => /\ call'.op \in {"write", "push"} => ret'[1] = "Err"
             /\ call'.op = "remove" => ret' = Bool(FALSE)
             /\ StoreUnchanged
             /\ bridge' = <<>>]_vars

\* a push to '%' refused while the store holds registers and clipboard text
C6_Witness ==
    /\ call = [op |-> "push", name |-> "%"]
    /\ ret[1] = "Err"
    /\ DOMAIN inner = {"a", "+"}
    /\ clipboard["Clipboard"] # <<>>

----------------------------------------------------------------------------
(* C7 *)

\* C7: clear returns nothing and never an error; whichever set_contents calls
\* fail, it has asked both clipboard kinds to hold the empty text, the map is
\* empty, each kind whose call succeeded holds the empty text, and a read of
\* an ordinary name finds nothing.
C7_ClearCompletes ==
    call.op = "clear" =>
        /\ ret = Unit
        /\ Len(bridge) = 2
        /\ \A i \in 1..2 : bridge[i].fn = "set_contents" /\ bridge[i].text = <<>>
        /\ {bridge[i].kind : i \in 1..2} = {"Clipboard", "Selection"}
        /\ \A i \in 1..2 : bridge[i].ok => clipboard[bridge[i].kind] = <<>>
        /\ DOMAIN inner = {}
        /\ ReadNow("a") = None

\* clear went through although the system clipboard could not be cleared
C7_Witness ==
    /\ call.op = "clear"
    /\ ~bridge[1].ok /\ bridge[2].ok
    /\ clipboard["Clipboard"] # <<>>
    /\ clipboard["Selection"] = <<>>
    /\ DOMAIN inner = {}

----------------------------------------------------------------------------
(* C8 *)

----------------------------------------------------------------------------
(* C9 *)

\* C9: when set_contents fails during a write to a clipboard register, write
\* returns an error, the clipboard is as it was, and the register holds the
\* values written as its most recent batch.
C9_WriteKeepsCacheOnSetFailure ==
    [][call'.op = "write" =>
         \A name \in {"+", "*"}, values \in ValueLists :
            (Write(name, values) /\ ~bridge'[1].ok)
            => /\ ret'[1] = "Err"
               /\ clipboard' = clipboard
               /\ name \in DOMAIN inner'
               /\ RegisterValues(inner'[name]) = values]_vars

\* a failed write left the cache ahead of the clipboard
C9_Witness ==
    /\ call = [op |-> "write", name |-> "*"]
    /\ ret[1] = "Err"
    /\ ~bridge[1].ok
    /\ "*" \in DOMAIN inner
    /\ RegisterValues(inner["*"]) = << <<"a">>, <<"a">> >>
    /\ clipboard["Selection"] = <<>>

----------------------------------------------------------------------------
(* C10 *)

\* C10: when get_contents fails, read of a clipboard register returns a
\* present, empty sequence whatever the cache holds, first and last return
\* none, and neither the registers nor the clipboard change.
C10_ReadSurvivesGetFailure ==
    [][\A name \in {"+", "*"} :
          (/\ call'.name = name
           /\ call'.op \in {"read", "first", "last"}
           /\ ~bridge'[1].ok)
          => /\ call'.op = "read" => ret' = Some(<<>>)
             /\ call'.op \in {"first", "last"} => ret' = None
             /\ StoreUnchanged]_vars

\* a read that failed while the cache and the clipboard both held text
C10_Witness ==
    /\ call = [op |-> "read", name |-> "+"]
    /\ ~bridge[1].ok
    /\ ret = Some(<<>>)
    /\ "+" \in DOMAIN inner
    /\ RegisterValues(inner["+"]) # <<>>
    /\ clipboard["Clipboard"] # <<>>

----------------------------------------------------------------------------
(* C11 *)

\* C11: in every state, write and push on '_' return Ok, leave the registers
\* and the clipboard as they were and call no provider; read of '_' returns a
\* present, empty sequence after every step, and first and last return none.
C11_BlackHoleDiscards ==
    [][/\ ReadNow("_")' = Some(<<>>)
       /\ call'.name = "_" =>
            /\ call'.op \in {"write", "push"} =>
                 /\ ret' = Ok
                 /\ inner' = inner
                 /\ clipboard' = clipboard
                 /\ bridge' = <<>>
            /\ call'.op = "read" => ret' = Some(<<>>)
            /\ call'.op \in {"first", "last"} => ret' = None]_vars

\* a write to '_' accepted while two ordinary registers hold values, none of
\* them under '_'
C11_Witness ==
    /\ call = [op |-> "write", name |-> "_"]
    /\ ret = Ok
    /\ DOMAIN inner = {"a", "b"}
    /\ bridge = <<>>

----------------------------------------------------------------------------
(* C12 *)

\* C12: a push to an ordinary name returns Ok; a read right after it returns
\* the batch that was current followed by the value pushed, or the value alone
\* when the name was unset; the stored values are the old ones followed by
\* the value, the number of batches is what it was (one when the name was
\* unset) and the length of every older batch is what it was.
C12_PushAppends ==
    [][call'.op = "push" =>
         \A value \in Values :
            Push("a", value) =>
              LET old == RegisterOf(inner, "a")
                  new == inner'["a"]
              IN  /\ ret' = Ok
                  /\ ReadNow("a")' = Some(Append(RegisterValues(old), value))
                  /\ "a" \notin DOMAIN inner => ReadNow("a")' = Some(<<value>>)
                  /\ new.values = Append(old.values, value)
                  /\ Len(new.lengths) =
                       IF old.lengths = <<>> THEN 1 ELSE Len(old.lengths)
                  /\ \A i \in 1..(Len(old.lengths) - 1) :
                       new.lengths[i] = old.lengths[i]]_vars

\* a push onto the newest yank of a full history: nothing was evicted
C12_Witness ==
    /\ call = [op |-> "push", name |-> "a"]
    /\ ret = Ok
    /\ Len(inner["a"].lengths) = MAX_REGISTER_HISTORY_LEN + 1
    /\ inner["a"].lengths[MAX_REGISTER_HISTORY_LEN + 1] = 2
    /\ Len(inner["a"].values) = MAX_REGISTER_HISTORY_LEN + 2

----------------------------------------------------------------------------
(* C13 *)

\* C13: when get_contents succeeds with a text T, read of a clipboard name
\* returns either the single value T or the cached batch, and the cached batch
\* only when its values joined with the line ending are exactly T; when there
\* is no cache or the joined cache differs from T it returns exactly <<T>>.
C13_ExternalContentWins ==
    [][\A name \in {"+", "*"} :
          (call' = [op |-> "read", name |-> name] /\ bridge'[1].ok)
          => LET T == bridge'[1].text
             IN  /\ \/ ret' = Some(<<T>>)
                    \/ /\ name \in DOMAIN inner
                       /\ ret' = Some(RegisterValues(inner[name]))
                       /\ JoinedCache(name) = T
                 /\ (name \notin DOMAIN inner \/ JoinedCache(name) # T)
                    => ret' = Some(<<T>>)]_vars

----------------------------------------------------------------------------
(* C14 *)

\* C14: contents_are_saved answers true only when the text is the values
\* joined in order with the line ending, and for no values only when the text
\* is empty; it answers true for no values and the empty text, true for
\* "ab","ba" against "ab" S "ba" and false against "ab" S "bab".
C14_NoFalsePositive ==
    call.op = "contents_are_saved" =>
        LET V == RegisterValues(inner["+"])
            T == clipboard["Clipboard"]
        IN  /\ ret = Bool(TRUE) => T = Join(V, NATIVE_LINE_ENDING)
            /\ (V = <<>> /\ T = <<>>) => ret = Bool(TRUE)
            /\ (V = <<>> /\ T # <<>>) => ret = Bool(FALSE)
            /\ V = << <<"a", "b">>, <<"b", "a">> >> =>
                 /\ T = <<"a", "b", "\n", "b", "a">> => ret = Bool(TRUE)
                 /\ T = <<"a", "b", "\n", "b", "a", "b">> => ret = Bool(FALSE)

----------------------------------------------------------------------------
(* C15 *)

\* C15: for every value list, values that are empty or hold the line ending
\* included, contents_are_saved answers true for the values joined in order
\* with the line ending; the join of no values is the empty text.
C15_AcceptsJoin ==
    (/\ call.op = "contents_are_saved"
     /\ clipboard["Clipboard"] =
          Join(RegisterValues(inner["+"]), NATIVE_LINE_ENDING))
    => ret = Bool(TRUE)

\* the join of an empty value and a value that starts with the line ending
C15_Witness ==
    /\ call.op = "contents_are_saved"
    /\ RegisterValues(inner["+"]) = << <<>>, <<"\n", "a">> >>
    /\ clipboard["Clipboard"] = <<"\n", "\n", "a">>
    /\ ret = Bool(TRUE)

----------------------------------------------------------------------------
(* C16 *)

\* C16: after every write and push to a register, every recorded yank length
\* is at least 1 and the number of stored values is the sum of the recorded
\* lengths; values() yields exactly the last lengths[last] stored values; and
\* a write to a full register drops the oldest length and exactly that many
\* of the oldest values, keeping the others in order, whether or not a push
\* had lengthened that yank.
C16_LengthsAccountForValues ==
    [][LET old == RegisterOf(inner, "a")
           new == RegisterOf(inner, "a")'
           n   == Len(new.values)
           k   == Len(new.lengths)
       IN  /\ \A i \in 1..k : new.lengths[i] >= 1
           /\ n = SumOfLengths(new.lengths)
           /\ k > 0 =>
                /\ Len(RegisterValues(new)) = new.lengths[k]
                /\ RegisterValues(new) = SubSeq(new.values, n - new.lengths[k] + 1, n)
           /\ (call'.op = "write" /\ Len(old.lengths) > MAX_REGISTER_HISTORY_LEN) =>
                LET kept == Len(old.values) - old.lengths[1]
                IN  /\ new.lengths = Append(Tail(old.lengths), n - kept)
                    /\ SubSeq(new.values, 1, kept) =
                         SubSeq(old.values, old.lengths[1] + 1, Len(old.values))]_vars

\* a full register whose oldest yank holds a pushed value: the next write
\* evicts two values
C16_Witness ==
    /\ "a" \in DOMAIN inner
    /\ call = [op |-> "write", name |-> "a"]
    /\ Len(inner["a"].lengths) = MAX_REGISTER_HISTORY_LEN + 1
    /\ Len(inner["a"].values) = MAX_REGISTER_HISTORY_LEN + 2
    /\ inner["a"].lengths[1] = 2
    /\ inner["a"].values[2] = <<"a">>

----------------------------------------------------------------------------
(* C17 *)

\* C17: in every reachable state every register in the map holds at least
\* one value and one yank: no entry is left in its empty Default state.
C17_NoEmptyRegister ==
    \A name \in DOMAIN inner :
        /\ inner[name].values # <<>>
        /\ inner[name].lengths # <<>>

----------------------------------------------------------------------------
(* C18 *)

\* C18: a register never retains more than MAX_REGISTER_HISTORY_LEN yanks:
\* a write to a register that holds MAX_REGISTER_HISTORY_LEN yanks discards
\* the oldest one.
C18_AtMostMaxBatches ==
    Len(RegisterOf(inner, "a").lengths) <= MAX_REGISTER_HISTORY_LEN

----------------------------------------------------------------------------
(* C19 *)

\* C19: whenever a push to a clipboard name returns an error, whether
\* get_contents failed, the text did not match the cache or set_contents
\* failed, the map is exactly what it was before the call: no value appended
\* and no entry created.
C19_FailedPushAtomic ==
    [][\A name \in {"+", "*"} :
          (call' = [op |-> "push", name |-> name] /\ ret'[1] = "Err")
          => inner' = inner]_vars

----------------------------------------------------------------------------
(* C20 *)

====
